---------------------------- MODULE Spec2Model ----------------------------
(***************************************************************************)
(* A model of RubikPiWrapper/src/rubik_python_wrapper.cpp: the tensor      *)
(* shape scan, IoU and class-aware NMS, letterboxing, the candidate loop   *)
(* of RubikDetector::detect and the resource handling of the constructor   *)
(* and destructor.                                                         *)
(*                                                                         *)
(* Real numbers.  Confidences, coordinates and thresholds are exact        *)
(* rationals (a numerator over a denominator).  The quantisation scales    *)
(* drawn below are powers of two and the integers small, so every product  *)
(* and comparison the code does in float is exact for these inputs.  The   *)
(* IoU quotient is compared with the threshold by cross multiplication;    *)
(* for the boxes and thresholds drawn the quotient and the threshold are   *)
(* either equal or far further apart than a float ulp.  letterbox's        *)
(* float product is NOT exact, and is modelled bit for bit (Fl32 below).   *)
(***************************************************************************)
EXTENDS Integers, Sequences, FiniteSets, TLC

VARIABLES
    \* optimizedNMS
    nmsPc,          \* "off" | "ready" | "done" | "again"
    emitted,        \* the candidate list as handed to optimizedNMS
    candidates,     \* the caller's vector (sorted in place by the call)
    nmsThreshold,   \* [num, den]
    suppressed,     \* the call's suppressed[] vector when it returned
    results,        \* the returned vector
    results2,       \* what a second call on `results` returned
    \* tensor_image_dims
    dimPc,          \* "off" | "ready" | "done"
    dims,           \* the tensor's dimension list
    dimRet,         \* [ok, w, h, c]
    \* letterbox
    lbPc,           \* "off" | "ready" | "done"
    lbIn,           \* [h, w, target]
    lbOut,          \* Letterbox(...)
    \* RubikDetector::RubikDetector / ~RubikDetector
    ctorPc,
    use_delegate,
    res,            \* resource -> "none" | "live" | "released"
    relCount,       \* resource -> number of times it was released
    attached,       \* the delegate is referenced by the options / interpreter
    dangling,       \* resources released while a live resource still used them
    outcome,        \* backend call -> "notcalled" | "ok" | "fail"
    exc,            \* the exception the constructor threw, or "none"
    calls,          \* methods called on the constructed detector
    lastMethod,     \* the last of them, or "none"
    \* RubikDetector::detect
    detPc,          \* "off" | "ready" | "loop" | "returned" | "thrown"
    image,          \* [ndim, h, w]
    inShape,        \* tensor_image_dims of the input tensor
    imgMat,         \* what img_mat holds: [letterboxed, rgb, h, w]
    tensorInput,    \* what was copied into the input tensor
    invoked,        \* inference ran on tensorInput
    quant,          \* [boxes |-> [zp, scale], scores |-> [zp, scale], box_threshold]
    numBoxes,
    row             \* the loop index i

nmsVars  == <<nmsPc, emitted, candidates, nmsThreshold, suppressed, results, results2>>
dimVars  == <<dimPc, dims, dimRet>>
lbVars   == <<lbPc, lbIn, lbOut>>
ctorVars == <<ctorPc, use_delegate, res, relCount, attached, dangling, outcome, exc,
             calls, lastMethod>>
detVars  == <<detPc, image, inShape, imgMat, tensorInput, invoked, quant, numBoxes, row>>
vars     == <<nmsVars, dimVars, lbVars, ctorVars, detVars>>

Max(a, b) == IF a >= b THEN a ELSE b
Min(a, b) == IF a <= b THEN a ELSE b

SeqUpTo(n, S) == UNION {[1..k -> S] : k \in 0..n}

(***************************************************************************)
(* Bounds                                                                  *)
(***************************************************************************)
MaxCand  == 3      \* longest candidate list handed to optimizedNMS

(***************************************************************************)
(* calculateIoU                                                            *)
(***************************************************************************)
\* The float returned, as the fraction it is computed from.
calculateIoU(box1, box2) ==
    LET x1 == Max(box1.left, box2.left)
        y1 == Max(box1.top, box2.top)
        x2 == Min(box1.right, box2.right)
        y2 == Min(box1.bottom, box2.bottom)
        intersectionArea == (x2 - x1) * (y2 - y1)
        area1 == (box1.right - box1.left) * (box1.bottom - box1.top)
        area2 == (box2.right - box2.left) * (box2.bottom - box2.top)
    IN  IF x2 <= x1 \/ y2 <= y1
        THEN [num |-> 0, den |-> 1]
        ELSE [num |-> intersectionArea, den |-> area1 + area2 - intersectionArea]

\* a > b for fractions with positive denominators
FracGreater(a, b) == a.num * b.den > b.num * a.den
\* a >= b
FracGreaterEq(a, b) == a.num * b.den >= b.num * a.den

(***************************************************************************)
(* optimizedNMS                                                            *)
(***************************************************************************)
\* std::sort with the comparator a.confidence > b.confidence: the vector is
\* permuted into non-increasing confidence; std::sort is not stable, so the
\* order of candidates of equal confidence is any order.
\* (the comparator reversed: a.confidence < b.confidence)
SortAscending(c) ==
    { s \in { [i \in 1..Len(c) |-> c[p[i]]] : p \in Permutations(1..Len(c)) } :
        \A i \in 1..(Len(s) - 1) : s[i].confidence <= s[i + 1].confidence }

SortByConfidence(c) ==
    { s \in { [i \in 1..Len(c) |-> c[p[i]]] : p \in Permutations(1..Len(c)) } :
        \A i \in 1..(Len(s) - 1) : ~(s[i + 1].confidence > s[i].confidence) }

\* line 129-131: candidate j is suppressed by the accepted candidate i
\* (without the test of the class id)
SuppressesAnyClass(c, i, j, th) ==
    FracGreater(calculateIoU(c[i].box, c[j].box), th)

\* (with >= in place of >)
SuppressesAtThreshold(c, i, j, th) ==
    /\ c[j].id = c[i].id
    /\ FracGreaterEq(calculateIoU(c[i].box, c[j].box), th)

Suppresses(c, i, j, th) ==
    /\ c[j].id = c[i].id
    /\ FracGreater(calculateIoU(c[i].box, c[j].box), th)

\* the inner loop, j = i + 1 .. size - 1
RECURSIVE InnerLoop(_, _, _, _, _)
InnerLoop(c, i, j, sup, th) ==
    IF j > Len(c) THEN sup
    ELSE InnerLoop(c, i, j + 1,
                   IF ~sup[j] /\ Suppresses(c, i, j, th)
                   THEN [sup EXCEPT ![j] = TRUE] ELSE sup,
                   th)

\* the outer loop, i = 0 .. size - 1, over the sorted vector
RECURSIVE OuterLoop(_, _, _, _, _)
OuterLoop(c, i, sup, out, th) ==
    IF i > Len(c) THEN [results |-> out, suppressed |-> sup]
    ELSE IF sup[i] THEN OuterLoop(c, i + 1, sup, out, th)
    ELSE OuterLoop(c, i + 1, InnerLoop(c, i, i + 1, sup, th), Append(out, c[i]), th)

\* optimizedNMS on a vector the sort has left as `sorted`
optimizedNMS(sorted, th) ==
    IF Len(sorted) = 0 THEN [results |-> <<>>, suppressed |-> <<>>]
    ELSE OuterLoop(sorted, 1, [k \in 1..Len(sorted) |-> FALSE], <<>>, th)

\* The boxes, classes, confidences and thresholds the candidate lists are
\* drawn from: a 4 x 4 box A, B = A shifted right by 1 and C = A shifted by 2
\* (IoU(A,B) = IoU(B,C) = 3/5, IoU(A,C) = 1/3), two classes, two confidences,
\* and the thresholds 0, 0.45 and 0.6.
BoxAt(s) == [left |-> s, right |-> s + 4, top |-> 0, bottom |-> 4]
NmsBoxes == {BoxAt(s) : s \in {0, 1, 2}}
ClassIds == {3, 7}
Confidences == {6, 9}
Thresholds == {[num |-> 0, den |-> 1], [num |-> 9, den |-> 20], [num |-> 3, den |-> 5]}
Detections == [id : ClassIds, box : NmsBoxes, confidence : Confidences]

InitNMS ==
    /\ nmsPc = "ready"
    /\ emitted \in SeqUpTo(MaxCand, Detections)
    /\ candidates = emitted
    /\ nmsThreshold \in Thresholds
    /\ suppressed = <<>>
    /\ results = <<>>
    /\ results2 = <<>>

NmsOff ==
    /\ nmsPc = "off"
    /\ emitted = <<>>
    /\ candidates = <<>>
    /\ nmsThreshold = [num |-> 0, den |-> 1]
    /\ suppressed = <<>>
    /\ results = <<>>
    /\ results2 = <<>>

\* results = optimizedNMS(candidates, nmsThreshold)
NMSCall ==
    /\ nmsPc = "ready"
    /\ \E sorted \in SortByConfidence(candidates) :
          LET r == optimizedNMS(sorted, nmsThreshold)
          IN  /\ candidates' = sorted
              /\ suppressed' = r.suppressed
              /\ results' = r.results
    /\ nmsPc' = "done"
    /\ UNCHANGED <<emitted, nmsThreshold, results2>>
    /\ UNCHANGED <<dimVars, lbVars, ctorVars, detVars>>

\* results2 = optimizedNMS(results, nmsThreshold): NMS applied to its own output
NMSAgain ==
    /\ nmsPc = "done"
    /\ \E sorted \in SortByConfidence(results) :
          results2' = optimizedNMS(sorted, nmsThreshold).results
    /\ nmsPc' = "again"
    /\ UNCHANGED <<emitted, candidates, nmsThreshold, suppressed, results>>
    /\ UNCHANGED <<dimVars, lbVars, ctorVars, detVars>>

(***************************************************************************)
(* tensor_image_dims                                                       *)
(***************************************************************************)
MaxRank   == 4     \* longest dimension list
MaxDimVal == 5     \* dimensions are 0..MaxDimVal

\* line 88: if (*c > 4) return false
\* (with >= in place of >)
ChannelsFrom4Rejected(c) == c >= 4

ChannelsRejected(c) == c > 4

\* the for loop of lines 73-84; st.failed is an early `return false`.
\* "unset" is an out-parameter the function has not written.
RECURSIVE DimScan(_, _, _)
DimScan(d, i, st) ==
    IF i > Len(d) THEN st
    ELSE IF d[i] = 0 THEN [st EXCEPT !.failed = TRUE]
    ELSE IF d[i] = 1 THEN DimScan(d, i + 1, st)
    ELSE CASE st.cursor = 0 -> DimScan(d, i + 1, [st EXCEPT !.cursor = 1, !.w = d[i]])
           [] st.cursor = 1 -> DimScan(d, i + 1, [st EXCEPT !.cursor = 2, !.h = d[i]])
           [] st.cursor = 2 -> DimScan(d, i + 1, [st EXCEPT !.cursor = 3, !.c = d[i]])
           [] OTHER         -> [st EXCEPT !.cursor = st.cursor + 1, !.failed = TRUE]

tensor_image_dims(d) ==
    LET st == DimScan(d, 1, [cursor |-> 0, failed |-> FALSE,
                             w |-> "unset", h |-> "unset", c |-> "unset"])
        c  == IF st.cursor = 2 THEN 1 ELSE st.c
    IN  IF st.failed THEN [ok |-> FALSE, w |-> st.w, h |-> st.h, c |-> st.c]
        ELSE IF st.cursor < 2 THEN [ok |-> FALSE, w |-> st.w, h |-> st.h, c |-> st.c]
        ELSE IF ChannelsRejected(c) THEN [ok |-> FALSE, w |-> st.w, h |-> st.h, c |-> c]
        ELSE [ok |-> TRUE, w |-> st.w, h |-> st.h, c |-> c]

NoDims == [ok |-> FALSE, w |-> "unset", h |-> "unset", c |-> "unset"]

InitDims ==
    /\ dimPc = "ready"
    /\ dims \in SeqUpTo(MaxRank, 0..MaxDimVal)
    /\ dimRet = NoDims

DimsOff ==
    /\ dimPc = "off"
    /\ dims = <<>>
    /\ dimRet = NoDims

\* dimRet = tensor_image_dims(tensor, &w, &h, &c)
TensorImageDims ==
    /\ dimPc = "ready"
    /\ dimRet' = tensor_image_dims(dims)
    /\ dimPc' = "done"
    /\ UNCHANGED dims
    /\ UNCHANGED <<nmsVars, lbVars, ctorVars, detVars>>

(***************************************************************************)
(* IEEE single precision, for letterbox's scale and products.  A positive  *)
(* float is [m, k]: the value m / 2^k with 2^23 <= m < 2^24.               *)
(***************************************************************************)
FloatMantissa == 24

RECURSIVE Pow2(_)
Pow2(n) == IF n = 0 THEN 1 ELSE 2 * Pow2(n - 1)

\* n / d rounded to the nearest integer, ties to even
RoundHalfEven(n, d) ==
    LET q == n \div d
        r == n % d
    IN  IF 2 * r > d \/ (2 * r = d /\ q % 2 = 1) THEN q + 1 ELSE q

\* a mantissa that rounding carried to 2^24 is renormalised
Renorm(m, k) ==
    IF m = Pow2(FloatMantissa) THEN [m |-> Pow2(FloatMantissa - 1), k |-> k - 1]
    ELSE [m |-> m, k |-> k]

\* the least k >= from with n * 2^k >= d * 2^23
RECURSIVE ScaleUp(_, _, _)
ScaleUp(n, d, from) ==
    IF n * Pow2(from) >= d * Pow2(FloatMantissa - 1) THEN from
    ELSE ScaleUp(n, d, from + 1)

\* static_cast<float>(n) / d for ints 1 <= n, d < 128, n / d < 2^23
Fl32Div(n, d) ==
    LET k == ScaleUp(n, d, 0)
    IN  Renorm(RoundHalfEven(n * Pow2(k), d), k)

\* the least s >= from with p / 2^s < 2^24
RECURSIVE ScaleDown(_, _)
ScaleDown(p, from) ==
    IF p \div Pow2(from) < Pow2(FloatMantissa) THEN from ELSE ScaleDown(p, from + 1)

\* w * f in float, for an int 1 <= w < 128
Fl32Mul(w, f) ==
    LET p == w * f.m
        s == ScaleDown(p, 0)
    IN  Renorm(RoundHalfEven(p, Pow2(s)), f.k - s)

\* static_cast<int>(f): truncation toward zero
TruncToInt(f) ==
    IF f.k >= 0 THEN f.m \div Pow2(f.k) ELSE f.m * Pow2(0 - f.k)

\* a / b as C divides ints: toward zero
CDiv(a, b) == IF a >= 0 THEN a \div b ELSE 0 - ((0 - a) \div b)

(***************************************************************************)
(* letterbox                                                               *)
(***************************************************************************)
MaxSide   == 11    \* image sides are 1..MaxSide
MaxTarget == 13    \* target_size is 1..MaxTarget

\* cv::resize to an empty cv::Size and an ROI outside the canvas both raise
\* cv::Exception: ok = FALSE, and no image is returned.
letterbox(original_h, original_w, target_size) ==
    LET scale == Fl32Div(target_size, Max(original_h, original_w))
        new_w == TruncToInt(Fl32Mul(original_w, scale))
        new_h == TruncToInt(Fl32Mul(original_h, scale))
        top   == CDiv(target_size - new_h, 2)
        left  == CDiv(target_size - new_w, 2)
    IN  [ok    |-> /\ new_w > 0 /\ new_h > 0
                   /\ left >= 0 /\ top >= 0
                   /\ left + new_w <= target_size /\ top + new_h <= target_size,
         new_w |-> new_w, new_h |-> new_h, top |-> top, left |-> left,
         rows  |-> target_size, cols |-> target_size]

NoLetterbox == [ok |-> FALSE, new_w |-> 0, new_h |-> 0, top |-> 0, left |-> 0,
                rows |-> 0, cols |-> 0]

InitLetterbox ==
    /\ lbPc = "ready"
    /\ lbIn \in [h : 1..MaxSide, w : 1..MaxSide, target : 1..MaxTarget]
    /\ lbOut = NoLetterbox

LetterboxOff ==
    /\ lbPc = "off"
    /\ lbIn = [h |-> 1, w |-> 1, target |-> 1]
    /\ lbOut = NoLetterbox

\* lbOut = letterbox(img, target_size)
LetterboxCall ==
    /\ lbPc = "ready"
    /\ lbOut' = letterbox(lbIn.h, lbIn.w, lbIn.target)
    /\ lbPc' = "done"
    /\ UNCHANGED lbIn
    /\ UNCHANGED <<nmsVars, dimVars, ctorVars, detVars>>

(***************************************************************************)
(* RubikDetector::RubikDetector and ~RubikDetector, one backend call per   *)
(* step.  A member pointer is non-null exactly when res of its resource is *)
(* not "none": the code never resets a pointer.                            *)
(***************************************************************************)
MaxCalls == 2      \* method calls on one detector

Resources == {"model", "opts", "delegate", "interp"}
Calls == {"load", "options", "delegateCreate", "interpCreate", "modify", "alloc"}

\* the live resources that hold a reference to r
Users(r) ==
    CASE r = "model"    -> {u \in {"interp"} : res[u] = "live"}
      [] r = "delegate" -> {u \in {"opts", "interp"} : attached /\ res[u] = "live"}
      [] OTHER          -> {}

\* the state after TfLite...Delete(r)
Released(r) ==
    /\ res' = [res EXCEPT ![r] = IF @ = "none" THEN "none" ELSE "released"]
    /\ relCount' = [relCount EXCEPT ![r] = @ + 1]
    /\ dangling' = IF Users(r) # {} THEN dangling \cup {r} ELSE dangling

Acquired(r) == res' = [res EXCEPT ![r] = "live"]

Called(c, how) == outcome' = [outcome EXCEPT ![c] = how]

InitCtor ==
    /\ ctorPc = "load"
    /\ use_delegate \in BOOLEAN
    /\ res = [r \in Resources |-> "none"]
    /\ relCount = [r \in Resources |-> 0]
    /\ attached = FALSE
    /\ dangling = {}
    /\ outcome = [c \in Calls |-> "notcalled"]
    /\ exc = "none"
    /\ calls = 0
    /\ lastMethod = "none"

CtorOff ==
    /\ ctorPc = "off"
    /\ use_delegate = FALSE
    /\ res = [r \in Resources |-> "none"]
    /\ relCount = [r \in Resources |-> 0]
    /\ attached = FALSE
    /\ dangling = {}
    /\ outcome = [c \in Calls |-> "notcalled"]
    /\ exc = "none"
    /\ calls = 0
    /\ lastMethod = "none"

\* lines 181-185
LoadModel ==
    /\ ctorPc = "load"
    /\ \/ /\ Acquired("model") /\ Called("load", "ok")
          /\ ctorPc' = "options"
          /\ exc' = exc
       \/ /\ Called("load", "fail")
          /\ ctorPc' = "thrown"
          /\ exc' = "load"
          /\ res' = res
    /\ UNCHANGED <<use_delegate, relCount, attached, dangling>>
    /\ UNCHANGED <<calls, lastMethod, nmsVars, dimVars, lbVars, detVars>>

\* line 188
OptionsCreate ==
    /\ ctorPc = "options"
    /\ \/ /\ Acquired("opts") /\ Called("options", "ok")
          /\ ctorPc' = "delegate"
       \/ /\ Called("options", "fail")
          /\ ctorPc' = "options_failed"
          /\ res' = res
    /\ UNCHANGED <<use_delegate, relCount, attached, dangling, exc>>
    /\ UNCHANGED <<calls, lastMethod, nmsVars, dimVars, lbVars, detVars>>

\* lines 190-191
OptionsFailed ==
    /\ ctorPc = "options_failed"
    /\ Released("model")
    /\ ctorPc' = "thrown"
    /\ exc' = "options"
    /\ UNCHANGED <<use_delegate, attached, outcome>>
    /\ UNCHANGED <<calls, lastMethod, nmsVars, dimVars, lbVars, detVars>>

\* lines 195-211
\* (a constructor that throws when the delegate cannot be created)
DelegateCreateThrows ==
    /\ ctorPc = "delegate"
    /\ \/ /\ ~use_delegate
          /\ ctorPc' = "interp"
          /\ UNCHANGED <<res, attached, outcome, exc>>
       \/ /\ use_delegate
          /\ Acquired("delegate") /\ Called("delegateCreate", "ok")
          /\ attached' = TRUE
          /\ ctorPc' = "interp"
          /\ exc' = exc
       \/ /\ use_delegate
          /\ Called("delegateCreate", "fail")
          /\ ctorPc' = "thrown"
          /\ exc' = "delegateCreate"
          /\ UNCHANGED <<res, attached>>
    /\ UNCHANGED <<use_delegate, relCount, dangling>>
    /\ UNCHANGED <<calls, lastMethod, nmsVars, dimVars, lbVars, detVars>>

DelegateCreate ==
    /\ ctorPc = "delegate"
    /\ \/ /\ ~use_delegate
          /\ UNCHANGED <<res, attached, outcome>>
       \/ /\ use_delegate
          /\ Acquired("delegate") /\ Called("delegateCreate", "ok")
          /\ attached' = TRUE                     \* TfLiteInterpreterOptionsAddDelegate
       \/ /\ use_delegate
          /\ Called("delegateCreate", "fail")     \* warning only
          /\ UNCHANGED <<res, attached>>
    /\ ctorPc' = "interp"
    /\ UNCHANGED <<use_delegate, relCount, dangling, exc>>
    /\ UNCHANGED <<calls, lastMethod, nmsVars, dimVars, lbVars, detVars>>

\* line 214
InterpreterCreate ==
    /\ ctorPc = "interp"
    /\ \/ Acquired("interp") /\ Called("interpCreate", "ok")
       \/ Called("interpCreate", "fail") /\ res' = res
    /\ ctorPc' = "options_delete"
    /\ UNCHANGED <<use_delegate, relCount, attached, dangling, exc>>
    /\ UNCHANGED <<calls, lastMethod, nmsVars, dimVars, lbVars, detVars>>

\* lines 215-217
OptionsDelete ==
    /\ ctorPc = "options_delete"
    /\ Released("opts")
    /\ ctorPc' = IF res["interp"] = "none" THEN "interp_failed" ELSE "modify"
    /\ UNCHANGED <<use_delegate, attached, outcome, exc>>
    /\ UNCHANGED <<calls, lastMethod, nmsVars, dimVars, lbVars, detVars>>

\* line 218
InterpFailedDelegate ==
    /\ ctorPc = "interp_failed"
    /\ IF res["delegate"] # "none" THEN Released("delegate")
       ELSE UNCHANGED <<res, relCount, dangling>>
    /\ ctorPc' = "interp_failed_model"
    /\ UNCHANGED <<use_delegate, attached, outcome, exc>>
    /\ UNCHANGED <<calls, lastMethod, nmsVars, dimVars, lbVars, detVars>>

\* lines 219-220
InterpFailedModel ==
    /\ ctorPc = "interp_failed_model"
    /\ Released("model")
    /\ ctorPc' = "thrown"
    /\ exc' = "interpCreate"
    /\ UNCHANGED <<use_delegate, attached, outcome>>
    /\ UNCHANGED <<calls, lastMethod, nmsVars, dimVars, lbVars, detVars>>

\* lines 224-228
ModifyGraph ==
    /\ ctorPc = "modify"
    /\ \/ /\ res["delegate"] = "none"
          /\ outcome' = outcome
       \/ /\ res["delegate"] # "none"
          /\ \/ Called("modify", "ok")
             \/ Called("modify", "fail")          \* warning only
    /\ ctorPc' = "alloc"
    /\ UNCHANGED <<use_delegate, res, relCount, attached, dangling, exc>>
    /\ UNCHANGED <<calls, lastMethod, nmsVars, dimVars, lbVars, detVars>>

\* line 231
AllocateTensors ==
    /\ ctorPc = "alloc"
    /\ \/ Called("alloc", "ok") /\ ctorPc' = "constructed"
       \/ Called("alloc", "fail") /\ ctorPc' = "alloc_failed"
    /\ UNCHANGED <<use_delegate, res, relCount, attached, dangling, exc>>
    /\ UNCHANGED <<calls, lastMethod, nmsVars, dimVars, lbVars, detVars>>

\* line 232
AllocFailedInterp ==
    /\ ctorPc = "alloc_failed"
    /\ Released("interp")
    /\ ctorPc' = "alloc_failed_delegate"
    /\ UNCHANGED <<use_delegate, attached, outcome, exc>>
    /\ UNCHANGED <<calls, lastMethod, nmsVars, dimVars, lbVars, detVars>>

\* line 233
\* (a cleanup that forgets the delegate)
AllocFailedDelegateLeaked ==
    /\ ctorPc = "alloc_failed_delegate"
    /\ ctorPc' = "alloc_failed_model"
    /\ UNCHANGED <<use_delegate, res, relCount, dangling, attached, outcome, exc>>
    /\ UNCHANGED <<calls, lastMethod, nmsVars, dimVars, lbVars, detVars>>

AllocFailedDelegate ==
    /\ ctorPc = "alloc_failed_delegate"
    /\ IF res["delegate"] # "none" THEN Released("delegate")
       ELSE UNCHANGED <<res, relCount, dangling>>
    /\ ctorPc' = "alloc_failed_model"
    /\ UNCHANGED <<use_delegate, attached, outcome, exc>>
    /\ UNCHANGED <<calls, lastMethod, nmsVars, dimVars, lbVars, detVars>>

\* lines 234-235
AllocFailedModel ==
    /\ ctorPc = "alloc_failed_model"
    /\ Released("model")
    /\ ctorPc' = "thrown"
    /\ exc' = "alloc"
    /\ UNCHANGED <<use_delegate, attached, outcome>>
    /\ UNCHANGED <<calls, lastMethod, nmsVars, dimVars, lbVars, detVars>>

\* detect, is_quantized and get_input_shape each begin with
\* TfLiteInterpreterGetInputTensor(interpreter, 0): a use of the interpreter,
\* and through it of the model and the delegate.
MethodCall ==
    /\ ctorPc = "constructed"
    /\ calls < MaxCalls
    /\ \E method \in {"detect", "is_quantized", "get_input_shape"} :
          lastMethod' = method
    /\ calls' = calls + 1
    /\ dangling' = dangling \cup {r \in {"interp", "model"} : res[r] # "live"}
                             \cup {r \in {"delegate"} : attached /\ res[r] # "live"}
    /\ UNCHANGED <<ctorPc, use_delegate, res, relCount, attached, outcome, exc>>
    /\ UNCHANGED <<nmsVars, dimVars, lbVars, detVars>>

\* ~RubikDetector, line 242.  It runs on a constructed detector only: an
\* object whose constructor threw is never destroyed.
DestroyInterp ==
    /\ ctorPc = "constructed"
    /\ IF res["interp"] # "none" THEN Released("interp")
       ELSE UNCHANGED <<res, relCount, dangling>>
    /\ ctorPc' = "dtor_delegate"
    /\ UNCHANGED <<use_delegate, attached, outcome, exc>>
    /\ UNCHANGED <<calls, lastMethod, nmsVars, dimVars, lbVars, detVars>>

\* line 243
DestroyDelegate ==
    /\ ctorPc = "dtor_delegate"
    /\ IF res["delegate"] # "none" THEN Released("delegate")
       ELSE UNCHANGED <<res, relCount, dangling>>
    /\ ctorPc' = "dtor_model"
    /\ UNCHANGED <<use_delegate, attached, outcome, exc>>
    /\ UNCHANGED <<calls, lastMethod, nmsVars, dimVars, lbVars, detVars>>

\* line 244
DestroyModel ==
    /\ ctorPc = "dtor_model"
    /\ IF res["model"] # "none" THEN Released("model")
       ELSE UNCHANGED <<res, relCount, dangling>>
    /\ ctorPc' = "destroyed"
    /\ UNCHANGED <<use_delegate, attached, outcome, exc>>
    /\ UNCHANGED <<calls, lastMethod, nmsVars, dimVars, lbVars, detVars>>

(***************************************************************************)
(* RubikDetector::detect                                                   *)
(***************************************************************************)
MaxImg   == 2      \* image height and width are 1..MaxImg
MaxBoxes == 2      \* numBoxes is 0..MaxBoxes
MaxRaw   == 3      \* raw uint8 tensor values are 0..MaxRaw

\* get_dequant_value: a fraction over the scale's denominator
get_dequant_value(raw, tensor_type, zero_point, scale) ==
    CASE tensor_type = "kTfLiteUInt8"   ->
            [num |-> (raw - zero_point) * scale.num, den |-> scale.den]
      [] tensor_type = "kTfLiteFloat32" -> [num |-> raw, den |-> 1]
      [] OTHER                          -> [num |-> 0, den |-> 1]

\* std::max(0.0f, std::min(x, static_cast<float>(limit)))
Clamp(x, limit) == [num |-> Max(0, Min(x.num, limit * x.den)), den |-> x.den]

\* std::round of a non-negative float: halves go away from zero
Round(x) == (2 * x.num + x.den) \div (2 * x.den)

FracLess(a, b) == a.num * b.den < b.num * a.den

\* The shapes of the input tensor, the quantisation parameters of the output
\* tensors and the box_threshold a call is drawn with.
InputShapes == {<<1, 2, 2, 3>>, <<1, 2, 1, 3>>, <<1, 1, 2>>}
QuantParams ==
    { [boxes  |-> [zero_point |-> 0, scale |-> [num |-> 1, den |-> 2]],
       scores |-> [zero_point |-> 0, scale |-> [num |-> 1, den |-> 2]],
       box_threshold |-> [num |-> 1, den |-> 2]],
      [boxes  |-> [zero_point |-> 1, scale |-> [num |-> 1, den |-> 1]],
       scores |-> [zero_point |-> 1, scale |-> [num |-> 1, den |-> 2]],
       box_threshold |-> [num |-> 1, den |-> 2]] }

NoImage == [rgb |-> FALSE, letterboxed |-> FALSE, h |-> 0, w |-> 0]

InitDetect ==
    /\ detPc = "ready"
    /\ image = [ndim |-> 0, h |-> 0, w |-> 0]
    /\ inShape = NoDims
    /\ imgMat = NoImage
    /\ tensorInput = NoImage
    /\ invoked = FALSE
    /\ quant \in QuantParams
    /\ numBoxes = 0
    /\ row = 0

DetectOff ==
    /\ detPc = "off"
    /\ image = [ndim |-> 0, h |-> 0, w |-> 0]
    /\ inShape = NoDims
    /\ imgMat = NoImage
    /\ tensorInput = NoImage
    /\ invoked = FALSE
    /\ quant = [boxes  |-> [zero_point |-> 0, scale |-> [num |-> 1, den |-> 1]],
                scores |-> [zero_point |-> 0, scale |-> [num |-> 1, den |-> 1]],
                box_threshold |-> [num |-> 1, den |-> 2]]
    /\ numBoxes = 0
    /\ row = 0

\* lines 271-279: what img_mat and the input tensor hold once the image is
\* colour-converted, letterboxed when its size differs, and copied.
\* cvtColor writes the RGB image to `rgb`; letterbox is applied to img_mat
\* and assigned to img_mat; the memcpy reads rgb.data.
Preprocess(img_h, img_w, in_w, in_h) ==
    LET rgb == [rgb |-> TRUE, letterboxed |-> FALSE, h |-> img_h, w |-> img_w]
        bgr == [rgb |-> FALSE, letterboxed |-> FALSE, h |-> img_h, w |-> img_w]
        lb  == letterbox(img_h, img_w, in_w)
    IN  IF img_w # in_w \/ img_h # in_h
        THEN [ok      |-> lb.ok,
              img_mat |-> [rgb |-> FALSE, letterboxed |-> TRUE,
                           h |-> lb.rows, w |-> lb.cols],
              tensor  |-> rgb]
        ELSE [ok |-> TRUE, img_mat |-> bgr, tensor |-> rgb]

\* lines 252-300: up to the candidate loop
DetectBegin ==
    /\ detPc = "ready"
    /\ \E ndim \in {2, 3}, img_h \in 1..MaxImg, img_w \in 1..MaxImg,
          shape \in InputShapes, invokeOk \in BOOLEAN, n \in 0..MaxBoxes,
          nms \in Thresholds :
          LET in == tensor_image_dims(shape)
              pre == Preprocess(img_h, img_w, in.w, in.h)
          IN  /\ image' = [ndim |-> ndim, h |-> img_h, w |-> img_w]
              /\ nmsThreshold' = nms
              /\ IF ndim # 3
                 THEN /\ detPc' = "thrown"        \* Image must be 3-dimensional
                      /\ UNCHANGED <<inShape, imgMat, tensorInput, invoked, numBoxes>>
                 ELSE IF ~in.ok
                 THEN /\ detPc' = "thrown"        \* Invalid input tensor shape
                      /\ inShape' = in
                      /\ UNCHANGED <<imgMat, tensorInput, invoked, numBoxes>>
                 ELSE IF ~pre.ok
                 THEN /\ detPc' = "thrown"        \* cv::Exception out of letterbox
                      /\ inShape' = in
                      /\ UNCHANGED <<imgMat, tensorInput, invoked, numBoxes>>
                 ELSE /\ inShape' = in
                      /\ imgMat' = pre.img_mat
                      /\ tensorInput' = pre.tensor
                      /\ invoked' = invokeOk
                      /\ detPc' = IF invokeOk THEN "loop" ELSE "thrown"
                      /\ numBoxes' = IF invokeOk THEN n ELSE 0
    /\ UNCHANGED <<quant, row, emitted, candidates, suppressed, results, results2, nmsPc>>
    /\ UNCHANGED <<dimVars, lbVars, ctorVars>>

\* lines 303-336: what one row appends to candidateResults
Candidate(rawScore, classId, raw_x_1, raw_y_1, raw_x_2, raw_y_2, q, img_w, img_h) ==
    LET score == get_dequant_value(rawScore, "kTfLiteUInt8",
                                   q.scores.zero_point, q.scores.scale)
        x1 == get_dequant_value(raw_x_1, "kTfLiteUInt8", q.boxes.zero_point, q.boxes.scale)
        y1 == get_dequant_value(raw_y_1, "kTfLiteUInt8", q.boxes.zero_point, q.boxes.scale)
        x2 == get_dequant_value(raw_x_2, "kTfLiteUInt8", q.boxes.zero_point, q.boxes.scale)
        y2 == get_dequant_value(raw_y_2, "kTfLiteUInt8", q.boxes.zero_point, q.boxes.scale)
        clamped_x1 == Clamp(x1, img_w)
        clamped_y1 == Clamp(y1, img_h)
        clamped_x2 == Clamp(x2, img_w)
        clamped_y2 == Clamp(y2, img_h)
    IN  IF FracLess(score, q.box_threshold) THEN <<>>
        ELSE IF ~FracLess(clamped_x1, clamped_x2) \/ ~FracLess(clamped_y1, clamped_y2)
        THEN <<>>
        ELSE << [id |-> classId,
                 box |-> [left  |-> Round(clamped_x1), top    |-> Round(clamped_y1),
                          right |-> Round(clamped_x2), bottom |-> Round(clamped_y2)],
                 confidence |-> score.num] >>

\* one iteration of the loop of line 302; the row is what inference wrote
DetectRow ==
    /\ detPc = "loop"
    /\ row < numBoxes
    /\ \E rawScore \in 0..MaxRaw, classId \in ClassIds,
          raw_x_1 \in 0..MaxRaw, raw_x_2 \in 0..MaxRaw,
          raw_y_1 \in {0}, raw_y_2 \in {0, MaxRaw} :
          candidates' = candidates \o Candidate(rawScore, classId, raw_x_1, raw_y_1,
                                                raw_x_2, raw_y_2, quant, image.w, image.h)
    /\ row' = row + 1
    /\ emitted' = candidates'
    /\ UNCHANGED <<detPc, image, inShape, imgMat, tensorInput, invoked, quant, numBoxes,
                   nmsPc, nmsThreshold, suppressed, results, results2>>
    /\ UNCHANGED <<dimVars, lbVars, ctorVars>>

\* line 339
DetectEnd ==
    /\ detPc = "loop"
    /\ row = numBoxes
    /\ \E sorted \in SortByConfidence(candidates) :
          LET r == optimizedNMS(sorted, nmsThreshold)
          IN  /\ candidates' = sorted
              /\ suppressed' = r.suppressed
              /\ results' = r.results
    /\ detPc' = "returned"
    /\ UNCHANGED <<image, inShape, imgMat, tensorInput, invoked, quant, numBoxes, row,
                   nmsPc, emitted, nmsThreshold, results2>>
    /\ UNCHANGED <<dimVars, lbVars, ctorVars>>

(***************************************************************************)
(* Specifications                                                          *)
(***************************************************************************)
InitSpecNMS == InitNMS /\ DimsOff /\ LetterboxOff /\ CtorOff /\ DetectOff
NextNMS == NMSCall
SpecNMS == InitSpecNMS /\ [][NextNMS]_vars

\* optimizedNMS, then optimizedNMS again on what it returned
InitSpecNMSTwice == InitNMS /\ DimsOff /\ LetterboxOff /\ CtorOff /\ DetectOff
NextNMSTwice == NMSCall \/ NMSAgain
SpecNMSTwice == InitSpecNMSTwice /\ [][NextNMSTwice]_vars

InitSpecDims == NmsOff /\ InitDims /\ LetterboxOff /\ CtorOff /\ DetectOff
NextDims == TensorImageDims
SpecDims == InitSpecDims /\ [][NextDims]_vars

InitSpecLetterbox == NmsOff /\ DimsOff /\ InitLetterbox /\ CtorOff /\ DetectOff
NextLetterbox == LetterboxCall
SpecLetterbox == InitSpecLetterbox /\ [][NextLetterbox]_vars

InitSpecCtor == NmsOff /\ DimsOff /\ LetterboxOff /\ InitCtor /\ DetectOff
NextCtor ==
    \/ LoadModel
    \/ OptionsCreate
    \/ OptionsFailed
    \/ DelegateCreate
    \/ InterpreterCreate
    \/ OptionsDelete
    \/ InterpFailedDelegate
    \/ InterpFailedModel
    \/ ModifyGraph
    \/ AllocateTensors
    \/ AllocFailedInterp
    \/ AllocFailedDelegate
    \/ AllocFailedModel
    \/ MethodCall
    \/ DestroyInterp
    \/ DestroyDelegate
    \/ DestroyModel
SpecCtor == InitSpecCtor /\ [][NextCtor]_vars

InitSpecDetect == NmsOff /\ DimsOff /\ LetterboxOff /\ CtorOff /\ InitDetect
NextDetect == DetectBegin \/ DetectRow \/ DetectEnd
SpecDetect == InitSpecDetect /\ [][NextDetect]_vars

(***************************************************************************)
(* Properties                                                              *)
(***************************************************************************)
NmsReturned == nmsPc = "done"

\* IoU(a, b) > nms_threshold, on the boxes of two detections
IoUAbove(a, b) ==
    LET iou == calculateIoU(a.box, b.box)
    IN  iou.num * nmsThreshold.den > nmsThreshold.num * iou.den

\* the entries of c from index k on whose mark is FALSE, in order
RECURSIVE UnmarkedFrom(_, _, _)
UnmarkedFrom(c, marks, k) ==
    IF k > Len(c) THEN <<>>
    ELSE (IF marks[k] THEN <<>> ELSE <<c[k]>>) \o UnmarkedFrom(c, marks, k + 1)

Unmarked(c, marks) == UnmarkedFrom(c, marks, 1)

\* C1: the list optimizedNMS returns is the greedy result: the candidates not
\* suppressed; no two returned detections of one class have IoU above the
\* threshold; and every omitted candidate has a retained candidate of its class
\* earlier in the sorted order whose IoU with it is above the threshold.
C1_GreedyResult ==
    NmsReturned =>
        /\ Len(suppressed) = Len(candidates)
        /\ results = Unmarked(candidates, suppressed)
        /\ \A p, q \in 1..Len(results) :
              (p < q /\ results[p].id = results[q].id) => ~IoUAbove(results[p], results[q])
        /\ \A j \in 1..Len(candidates) :
              suppressed[j] =>
                 \E i \in 1..(j - 1) :
                    /\ ~suppressed[i]
                    /\ candidates[i].id = candidates[j].id
                    /\ IoUAbove(candidates[i], candidates[j])

\* two candidates of class 3, confidences 9 and 6, IoU 3/5, threshold 0.45:
\* only the one of confidence 9 is returned
C1_Witness ==
    /\ nmsPc = "done"
    /\ nmsThreshold = [num |-> 9, den |-> 20]
    /\ emitted = << [id |-> 3, box |-> BoxAt(1), confidence |-> 6],
                    [id |-> 3, box |-> BoxAt(0), confidence |-> 9] >>
    /\ results = << [id |-> 3, box |-> BoxAt(0), confidence |-> 9] >>

\* C2: candidates of different classes never suppress each other: a candidate
\* is omitted only when a retained candidate of its own class precedes it, the
\* first candidate of each class is retained, and a list of pairwise distinct
\* classes is returned whole.
C2_ClassIsolation ==
    NmsReturned =>
        /\ \A j \in 1..Len(candidates) :
              suppressed[j] =>
                 \E i \in 1..(j - 1) : ~suppressed[i] /\ candidates[i].id = candidates[j].id
        /\ \A j \in 1..Len(candidates) :
              (\A i \in 1..(j - 1) : candidates[i].id # candidates[j].id) => ~suppressed[j]
        /\ (\A i, j \in 1..Len(candidates) : i # j => candidates[i].id # candidates[j].id)
              => results = candidates

\* the same box twice, in two classes, threshold 0: both are returned
C2_Witness ==
    /\ nmsPc = "done"
    /\ nmsThreshold = [num |-> 0, den |-> 1]
    /\ Len(emitted) = 2
    /\ emitted[1].box = emitted[2].box
    /\ emitted[1].id # emitted[2].id
    /\ Len(results) = 2

\* a occurs in b in order: some strictly increasing index map carries a into b
IsSubsequence(a, b) ==
    \E f \in [1..Len(a) -> 1..Len(b)] :
        /\ \A k \in 1..(Len(a) - 1) : f[k] < f[k + 1]
        /\ \A k \in 1..Len(a) : a[k] = b[f[k]]

Count(c, d) == Cardinality({k \in 1..Len(c) : c[k] = d})

\* C3: the returned confidences are non-increasing; the returned list is a
\* subsequence of the candidates in descending-confidence order (a reordering
\* of the emitted candidates); results[0], when present, has the highest
\* confidence of all candidates, and it is present when there is a candidate.
C3_DescendingOrder ==
    NmsReturned =>
        /\ \A k \in 1..(Len(results) - 1) :
              results[k].confidence >= results[k + 1].confidence
        /\ Len(candidates) = Len(emitted)
        /\ \A d \in Detections : Count(candidates, d) = Count(emitted, d)
        /\ \A k \in 1..(Len(candidates) - 1) :
              candidates[k].confidence >= candidates[k + 1].confidence
        /\ IsSubsequence(results, candidates)
        /\ (Len(emitted) > 0) => (Len(results) > 0)
        /\ (Len(results) > 0) =>
              \A k \in 1..Len(emitted) : results[1].confidence >= emitted[k].confidence

\* the sort had to reorder, and two confidences are returned
C3_Witness ==
    /\ nmsPc = "done"
    /\ Len(emitted) = 3
    /\ emitted[1].confidence < emitted[3].confidence
    /\ Len(results) >= 2
    /\ results[1].confidence > results[Len(results)].confidence

\* C4: NMS is idempotent: optimizedNMS applied to its own output, with the same
\* threshold, returns that output.
C4_Idempotent == nmsPc = "again" => results2 = results

\* The second call suppresses nothing: it returns the detections of the first,
\* in an order that may differ among equal confidences.
NMSAgainKeepsAll ==
    nmsPc = "again" =>
        /\ Len(results2) = Len(results)
        /\ \A d \in Detections : Count(results2, d) = Count(results, d)

\* C5: every Detection the candidate loop of detect emits, and every one
\* detect returns, has left < right and top < bottom.
C5_BoxesNonDegenerate ==
    /\ \A k \in 1..Len(candidates) :
          /\ candidates[k].box.left < candidates[k].box.right
          /\ candidates[k].box.top < candidates[k].box.bottom
    /\ \A k \in 1..Len(results) :
          /\ results[k].box.left < results[k].box.right
          /\ results[k].box.top < results[k].box.bottom

\* C6: what inference consumes is the RGB image, letterboxed to the model's
\* input size exactly when the image's width or height differs from the
\* model's.
C6_TensorHoldsLetterboxedRGB ==
    invoked =>
        /\ tensorInput.rgb
        /\ tensorInput.letterboxed <=> (image.w # inShape.w \/ image.h # inShape.h)
        /\ tensorInput.letterboxed => (tensorInput.w = inShape.w /\ tensorInput.h = inShape.w)

\* n / d rounded to the nearest integer, halves up
RoundDiv(n, d) == (2 * n + d) \div (2 * d)

\* C7: letterbox resizes to round(w*T/max(h,w)) x round(h*T/max(h,w)), pastes
\* at top (T - new_h)/2 and left (T - new_w)/2 on a T x T canvas, and the
\* pasted rectangle lies inside the canvas, for every h, w >= 1 and every T.
C7_LetterboxRounds ==
    lbPc = "done" =>
        LET m == Max(lbIn.h, lbIn.w)
        IN  /\ lbOut.ok
            /\ lbOut.new_w = RoundDiv(lbIn.w * lbIn.target, m)
            /\ lbOut.new_h = RoundDiv(lbIn.h * lbIn.target, m)
            /\ lbOut.top = (lbIn.target - lbOut.new_h) \div 2
            /\ lbOut.left = (lbIn.target - lbOut.new_w) \div 2
            /\ lbOut.rows = lbIn.target /\ lbOut.cols = lbIn.target
            /\ lbOut.left >= 0 /\ lbOut.left + lbOut.new_w <= lbIn.target
            /\ lbOut.top >= 0 /\ lbOut.top + lbOut.new_h <= lbIn.target

NonSingleton(d) == SelectSeq(d, LAMBDA x : x # 1)

\* C8: tensor_image_dims fails if a dimension is 0, if more than three or
\* fewer than two dimensions differ from 1, or if the third such dimension
\* exceeds 4; otherwise it succeeds with width the first non-singleton
\* dimension, height the second, and channels the third, or 1 when there are
\* two.
C8_TensorImageDims ==
    dimPc = "done" =>
        LET ns == NonSingleton(dims)
            fails == \/ \E i \in 1..Len(dims) : dims[i] = 0
                     \/ Len(ns) > 3
                     \/ Len(ns) < 2
                     \/ (Len(ns) = 3 /\ ns[3] > 4)
        IN  /\ dimRet.ok <=> ~fails
            /\ dimRet.ok =>
                  /\ dimRet.w = ns[1]
                  /\ dimRet.h = ns[2]
                  /\ dimRet.c = IF Len(ns) = 3 THEN ns[3] ELSE 1

\* [1, 5, 5, 4]: accepted, with four channels
C8_Witness ==
    /\ dimPc = "done"
    /\ dims = <<1, 5, 5, 4>>
    /\ dimRet = [ok |-> TRUE, w |-> 5, h |-> 5, c |-> 4]

Fatal == {"load", "options", "interpCreate", "alloc"}

\* C9: the constructor throws only for a failed model load, options creation,
\* interpreter creation or tensor allocation; when those four succeed it
\* completes, whatever use_qnn_delegate is and whether or not creating or
\* attaching the delegate failed.
C9_AcceleratorNeverEscalated ==
    /\ (ctorPc = "thrown" \/ exc # "none") => (exc \in Fatal /\ outcome[exc] = "fail")
    /\ (\A c \in Fatal : outcome[c] = "ok") =>
          /\ exc = "none"
          /\ ctorPc \in {"constructed", "dtor_delegate", "dtor_model", "destroyed"}

\* constructed although attaching the delegate to the graph failed
C9_Witness ==
    /\ ctorPc = "constructed"
    /\ use_delegate
    /\ outcome["modify"] = "fail"

\* C10: every backend resource acquired is released exactly once, whatever the
\* backend calls return: none is live once the constructor has thrown or the
\* detector is destroyed, none is released twice or without having been
\* acquired, and none is released or used while a live resource refers to a
\* released one.
C10_ReleasedExactlyOnce ==
    /\ \A r \in Resources : relCount[r] = IF res[r] = "released" THEN 1 ELSE 0
    /\ dangling = {}
    /\ ctorPc \in {"thrown", "destroyed"} => \A r \in Resources : res[r] # "live"

\* tensor allocation failed with a delegate attached: all four are released
C10_Witness ==
    /\ ctorPc = "thrown"
    /\ exc = "alloc"
    /\ \A r \in Resources : res[r] = "released" /\ relCount[r] = 1

=============================================================================
